---- MODULE Spec2Model ----
(***************************************************************************)
(* Record Manager: a React view over a Firestore collection "records".     *)
(* The model joins the two variants of App.tsx: the one with the detail    *)
(* panel (selection, Previous/Next) and the one with a working delete.     *)
(*                                                                         *)
(* Texts are sequences of one-character strings.  A document is a record   *)
(* whose DOMAIN holds the fields that carry a value: a field that is not   *)
(* in the DOMAIN reads as null/undefined in the snapshot callback.         *)
(* Stored timestamps count ticks (TicksPerMs ticks to a millisecond);      *)
(* JavaScript Dates count milliseconds.                                    *)
(***************************************************************************)
EXTENDS Integers, Sequences, FiniteSets, TLC

\* ------------------------------------------------------------------ bounds
MaxClock == 2
MaxWrites == 2
MaxRecords == 2

TicksPerMs == 2

\* Every document is created by one write, so MaxWrites ids are enough.
Ids == 1..MaxWrites

\* ------------------------------------------------------------------ texts
Whitespace == {" "}

toLowerCaseChar(c) ==
    CASE c = "A" -> "a"
      [] c = "B" -> "b"
      [] OTHER -> c

toLowerCase(s) == [i \in 1..Len(s) |-> toLowerCaseChar(s[i])]

RECURSIVE trimStart(_)
trimStart(s) ==
    IF s # <<>> /\ Head(s) \in Whitespace THEN trimStart(Tail(s)) ELSE s

RECURSIVE trimEnd(_)
trimEnd(s) ==
    IF s # <<>> /\ s[Len(s)] \in Whitespace
    THEN trimEnd(SubSeq(s, 1, Len(s) - 1))
    ELSE s

trim(s) == trimEnd(trimStart(s))

includes(s, sub) ==
    \E k \in 0..(Len(s) - Len(sub)) : SubSeq(s, k + 1, k + Len(sub)) = sub

\* ------------------------------------------------------------------ state
VARIABLES
    docs,            \* backend: the collection, Ids -> document | Absent | Deleted
    pending,         \* writes awaiting their acknowledgment, in issue order
    now,             \* the client clock, in milliseconds (new Date())
    issued,          \* number of write commands sent to the backend so far
    subscribed,      \* the onSnapshot listener is attached
    records,         \* useState: the local record list
    searchQuery,     \* useState
    statusFilter,    \* useState
    showModal,       \* useState
    editingRecord,   \* useState: Record | null
    selectedRecord,  \* useState: Record | null
    formData,        \* useState
    toast,           \* the notification the last step raised, "none" if none
    lastOp           \* the handler that made the last step

vars == <<docs, pending, now, issued, subscribed, records, searchQuery,
          statusFilter, showModal, editingRecord, selectedRecord, formData,
          toast, lastOp>>

backendVars == <<docs, pending, issued>>
filterVars == <<searchQuery, statusFilter>>
formVars == <<showModal, editingRecord, formData>>

Null == [null |-> TRUE]
Absent == [absent |-> "never"]
Deleted == [absent |-> "deleted"]

Exists(d) == "absent" \notin DOMAIN d
Has(data, f) == f \in DOMAIN data

EmptyForm == [name |-> <<>>, singular |-> <<>>, plural |-> <<>>, status |-> "Active"]

\* ------------------------------------------------------------------ backend
\* Timestamp.toDate(): a Date carries whole milliseconds only.
toDate(ts) == ts \div TicksPerMs
\* A Date written to a document is stored as a Timestamp.
fromDate(d) == d * TicksPerMs

\* orderBy('createdAt', 'desc'): null sorts below every timestamp; documents
\* with equal keys follow in descending id order.
OrderKey(d) == IF Has(d, "createdAt") THEN d.createdAt ELSE -1

Precedes(D, a, b) ==
    \/ OrderKey(D[a]) > OrderKey(D[b])
    \/ OrderKey(D[a]) = OrderKey(D[b]) /\ a > b

RECURSIVE QueryOrder(_, _)
QueryOrder(D, S) ==
    IF S = {} THEN <<>>
    ELSE LET first == CHOOSE a \in S : \A b \in S \ {a} : Precedes(D, a, b)
         IN  <<first>> \o QueryOrder(D, S \ {first})

LiveIds(D) == {i \in DOMAIN D : Exists(D[i])}

\* ------------------------------------------------------------------ decode
\* data.f || '': the empty text is the only falsy text, and it is the default.
TextOrEmpty(data, f) == IF Has(data, f) /\ data[f] # <<>> THEN data[f] ELSE <<>>

\* data.status || 'Active'
StatusOrActive(data) ==
    IF Has(data, "status") /\ data.status # "" THEN data.status ELSE "Active"

DateOrNow(data, f, clock) ==
    IF Has(data, f) THEN toDate(data[f]) ELSE clock

Decode(id, data, clock) ==
    [id |-> id,
     name |-> TextOrEmpty(data, "name"),
     singular |-> TextOrEmpty(data, "singular"),
     plural |-> TextOrEmpty(data, "plural"),
     status |-> StatusOrActive(data),
     createdAt |-> DateOrNow(data, "createdAt", clock),
     updatedAt |-> DateOrNow(data, "updatedAt", clock)]

Snapshot(D, clock) ==
    LET order == QueryOrder(D, LiveIds(D))
    IN  [i \in 1..Len(order) |-> Decode(order[i], D[order[i]], clock)]

\* ------------------------------------------------------------------ filter
\* A search that compares the texts as typed, without folding the case.
matchesSearchCaseSensitive(record, q) ==
    \/ trim(q) = <<>>
    \/ includes(record.name, q)
    \/ includes(record.singular, q)
    \/ includes(record.plural, q)

matchesSearch(record, q) ==
    \/ trim(q) = <<>>
    \/ includes(toLowerCase(record.name), toLowerCase(q))
    \/ includes(toLowerCase(record.singular), toLowerCase(q))
    \/ includes(toLowerCase(record.plural), toLowerCase(q))

matchesStatus(record, s) == s = "All" \/ record.status = s

Filter(L, q, s) ==
    SelectSeq(L, LAMBDA record : matchesSearch(record, q) /\ matchesStatus(record, s))

filteredRecords == Filter(records, searchQuery, statusFilter)

\* ------------------------------------------------------------------ inputs
\* Documents written by other clients of the collection.
DocFull ==
    [name |-> <<"A", "b">>, singular |-> <<"a">>, plural |-> <<"B">>,
     status |-> "Inactive", createdAt |-> 2, updatedAt |-> 2]
DocSparse == [name |-> <<" ">>]
DocAlien ==
    [name |-> <<"b">>, singular |-> <<>>, plural |-> <<>>,
     status |-> "Archived", createdAt |-> 3, updatedAt |-> 4]

ExternalDocs == {DocFull, DocSparse, DocAlien}

\* A document whose createdAt is null and whose updatedAt is set.
DocNoCreatedAt == [name |-> <<"a">>, updatedAt |-> 2]

DatedDocs == ExternalDocs \cup {DocNoCreatedAt}

\* Texts typed into the search box.
QueryInputs == { <<>>, <<"B">> }

StatusFilters == {"All", "Active", "Inactive"}

\* Change events of the form's inputs: <<field name, value>>.
FormInputs ==
    { <<"name", <<" ", "a">>>>, <<"name", <<" ">>>>,
      <<"singular", <<"a", " ">>>>, <<"status", "Inactive">> }

\* ------------------------------------------------------------------ Init
Init ==
    /\ docs = [i \in Ids |-> Absent]
    /\ pending = <<>>
    /\ now = 1
    /\ issued = 0
    /\ subscribed = TRUE
    /\ records = <<>>
    /\ searchQuery = <<>>
    /\ statusFilter = "All"
    /\ showModal = FALSE
    /\ editingRecord = Null
    /\ selectedRecord = Null
    /\ formData = EmptyForm
    /\ toast = "none"
    /\ lastOp = "mount"

\* ------------------------------------------------------------------ environment
Tick ==
    /\ now < MaxClock
    /\ now' = now + 1
    /\ lastOp' = "tick"
    /\ UNCHANGED <<backendVars, subscribed, records, filterVars, formVars,
                   selectedRecord>>
    /\ toast' = "none"

\* Another client creates a document or overwrites an existing one.
ExternalWrite(id, data) ==
    /\ issued < MaxWrites
    /\ docs[id] # Deleted
    /\ docs' = [docs EXCEPT ![id] = data]
    /\ issued' = issued + 1
    /\ lastOp' = "external"
    /\ UNCHANGED <<pending, now, subscribed, records, filterVars, formVars,
                   selectedRecord>>
    /\ toast' = "none"

\* ------------------------------------------------------------------ subscription
\* A callback that patches the list: records the push no longer holds stay.
onSnapshotPatching ==
    /\ subscribed
    /\ records' = Snapshot(docs, now) \o
                      SelectSeq(records, LAMBDA r : r.id \notin LiveIds(docs))
    /\ lastOp' = "onSnapshot"
    /\ UNCHANGED <<backendVars, now, subscribed, filterVars, formVars,
                   selectedRecord>>
    /\ toast' = "none"

\* A callback that seeds an open Edit form again from the pushed record.
onSnapshotSeedingTheForm ==
    LET pushed == Snapshot(docs, now)
        hits == {i \in 1..Len(pushed) :
                    editingRecord # Null /\ pushed[i].id = editingRecord.id}
    IN  /\ subscribed
        /\ records' = pushed
        /\ IF hits # {}
           THEN LET target == pushed[CHOOSE i \in hits : TRUE]
                IN  /\ editingRecord' = target
                    /\ formData' = [name |-> target.name, singular |-> target.singular,
                                    plural |-> target.plural, status |-> target.status]
                    /\ UNCHANGED showModal
           ELSE UNCHANGED formVars
        /\ lastOp' = "onSnapshot"
        /\ UNCHANGED <<backendVars, now, subscribed, filterVars, selectedRecord>>
        /\ toast' = "none"

\* A callback that also refreshes the selected record from the pushed list.
onSnapshotRefreshingSelection ==
    LET pushed == Snapshot(docs, now)
        hits == {i \in 1..Len(pushed) :
                    selectedRecord # Null /\ pushed[i].id = selectedRecord.id}
    IN  /\ subscribed
        /\ records' = pushed
        /\ selectedRecord' = IF hits # {} THEN pushed[CHOOSE i \in hits : TRUE]
                             ELSE Null
        /\ lastOp' = "onSnapshot"
        /\ UNCHANGED <<backendVars, now, subscribed, filterVars, formVars>>
        /\ toast' = "none"

\* A callback that still runs after the listener was detached.
onSnapshotAfterRelease ==
    /\ records' = Snapshot(docs, now)
    /\ lastOp' = "onSnapshot"
    /\ UNCHANGED <<backendVars, now, subscribed, filterVars, formVars,
                   selectedRecord>>
    /\ toast' = "none"

onSnapshot ==
    /\ subscribed
    /\ records' = Snapshot(docs, now)
    /\ lastOp' = "onSnapshot"
    /\ UNCHANGED <<backendVars, now, subscribed, filterVars, formVars,
                   selectedRecord>>
    /\ toast' = "none"

unsubscribe ==
    /\ subscribed
    /\ subscribed' = FALSE
    /\ lastOp' = "unsubscribe"
    /\ UNCHANGED <<backendVars, now, records, filterVars, formVars,
                   selectedRecord>>
    /\ toast' = "none"

\* ------------------------------------------------------------------ filter state
setSearchQuery(q) ==
    /\ subscribed
    /\ searchQuery' = q
    /\ lastOp' = "setSearchQuery"
    /\ UNCHANGED <<backendVars, now, subscribed, records, statusFilter, formVars,
                   selectedRecord>>
    /\ toast' = "none"

setStatusFilter(s) ==
    /\ subscribed
    /\ statusFilter' = s
    /\ lastOp' = "setStatusFilter"
    /\ UNCHANGED <<backendVars, now, subscribed, records, searchQuery, formVars,
                   selectedRecord>>
    /\ toast' = "none"

\* ------------------------------------------------------------------ selection
IndexOfId(L, id) ==
    IF \E i \in 1..Len(L) : L[i].id = id
    THEN CHOOSE i \in 1..Len(L) : L[i].id = id /\ \A j \in 1..(i - 1) : L[j].id # id
    ELSE 0

\* findIndex: zero-based, -1 when no element matches.
findIndex(L, id) == IndexOfId(L, id) - 1

currentIndex == findIndex(filteredRecords, selectedRecord.id)
hasPrev == currentIndex > 0
\* hasNext without the test for "not found".
hasNextUnguarded == currentIndex < Len(filteredRecords) - 1

hasNext == currentIndex < Len(filteredRecords) - 1 /\ currentIndex >= 0
recordNum == IF currentIndex >= 0 THEN currentIndex + 1 ELSE 0
totalNum == Len(filteredRecords)

\* filteredRecords[i] of the source, i zero-based.
At(L, i) == L[i + 1]

\* A row click that reads the unfiltered list.
selectRowUnfiltered(i) ==
    /\ subscribed
    /\ i \in 1..Len(records)
    /\ selectedRecord' = records[i]
    /\ lastOp' = "selectRow"
    /\ UNCHANGED <<backendVars, now, subscribed, records, filterVars, formVars>>
    /\ toast' = "none"

selectRow(i) ==
    /\ subscribed
    /\ i \in 1..Len(filteredRecords)
    /\ selectedRecord' = filteredRecords[i]
    /\ lastOp' = "selectRow"
    /\ UNCHANGED <<backendVars, now, subscribed, records, filterVars, formVars>>
    /\ toast' = "none"

previous ==
    /\ subscribed
    /\ selectedRecord # Null
    /\ selectedRecord' = IF hasPrev THEN At(filteredRecords, currentIndex - 1)
                         ELSE selectedRecord
    /\ lastOp' = "previous"
    /\ UNCHANGED <<backendVars, now, subscribed, records, filterVars, formVars>>
    /\ toast' = "none"

\* A Next that wraps around at the last position.
nextWrapsAround ==
    /\ subscribed
    /\ selectedRecord # Null
    /\ selectedRecord' = IF hasNext THEN At(filteredRecords, currentIndex + 1)
                         ELSE IF filteredRecords # <<>> THEN filteredRecords[1]
                         ELSE selectedRecord
    /\ lastOp' = "next"
    /\ UNCHANGED <<backendVars, now, subscribed, records, filterVars, formVars>>
    /\ toast' = "none"

next ==
    /\ subscribed
    /\ selectedRecord # Null
    /\ selectedRecord' = IF hasNext THEN At(filteredRecords, currentIndex + 1)
                         ELSE selectedRecord
    /\ lastOp' = "next"
    /\ UNCHANGED <<backendVars, now, subscribed, records, filterVars, formVars>>
    /\ toast' = "none"

closeDetails ==
    /\ subscribed
    /\ selectedRecord # Null
    /\ selectedRecord' = Null
    /\ lastOp' = "closeDetails"
    /\ UNCHANGED <<backendVars, now, subscribed, records, filterVars, formVars>>
    /\ toast' = "none"

\* ------------------------------------------------------------------ form
FormOf(record) ==
    [name |-> record.name, singular |-> record.singular,
     plural |-> record.plural, status |-> record.status]

\* The state handleEdit(record) sets; the callers add what else they change.
handleEdit(record) ==
    /\ editingRecord' = record
    /\ formData' = FormOf(record)
    /\ showModal' = TRUE

rowEdit(i) ==
    /\ subscribed
    /\ i \in 1..Len(filteredRecords)
    /\ handleEdit(filteredRecords[i])
    /\ lastOp' = "handleEdit"
    /\ UNCHANGED <<backendVars, now, subscribed, records, filterVars,
                   selectedRecord>>
    /\ toast' = "none"

detailsEdit ==
    /\ subscribed
    /\ selectedRecord # Null
    /\ selectedRecord' = Null
    /\ handleEdit(selectedRecord)
    /\ lastOp' = "detailsEdit"
    /\ UNCHANGED <<backendVars, now, subscribed, records, filterVars>>
    /\ toast' = "none"

addClick ==
    /\ subscribed
    /\ showModal' = TRUE
    /\ lastOp' = "addClick"
    /\ UNCHANGED <<backendVars, now, subscribed, records, filterVars,
                   editingRecord, formData, selectedRecord>>
    /\ toast' = "none"

handleInputChange(field, value) ==
    /\ subscribed
    /\ showModal
    /\ formData' = [formData EXCEPT ![field] = IF field = "name" THEN trim(value)
                                                ELSE value]
    /\ lastOp' = "handleInputChange"
    /\ UNCHANGED <<backendVars, now, subscribed, records, filterVars,
                   showModal, editingRecord, selectedRecord>>
    /\ toast' = "none"

\* A reset that clears the fields and keeps the edit target.
resetFormKeepsTarget ==
    /\ formData' = EmptyForm
    /\ UNCHANGED editingRecord

\* The state resetForm() sets.
resetForm ==
    /\ formData' = EmptyForm
    /\ editingRecord' = Null

\* A close that hides the modal and leaves the form as it is.
handleCloseModalKeepsFields ==
    /\ subscribed
    /\ showModal
    /\ showModal' = FALSE
    /\ lastOp' = "handleCloseModal"
    /\ UNCHANGED <<backendVars, now, subscribed, records, filterVars,
                   editingRecord, formData, selectedRecord>>
    /\ toast' = "none"

handleCloseModal ==
    /\ subscribed
    /\ showModal
    /\ showModal' = FALSE
    /\ resetForm
    /\ lastOp' = "handleCloseModal"
    /\ UNCHANGED <<backendVars, now, subscribed, records, filterVars,
                   selectedRecord>>
    /\ toast' = "none"

\* ------------------------------------------------------------------ writes
RemoveAt(q, k) == SubSeq(q, 1, k - 1) \o SubSeq(q, k + 1, Len(q))

\* A validation that forgets to trim.
validateFormUntrimmed == formData.name # <<>>

validateForm == trim(formData.name) # <<>>

\* recordData of handleSubmit, as handed to updateDoc / addDoc.
recordData ==
    [name |-> formData.name, singular |-> formData.singular,
     plural |-> formData.plural, status |-> formData.status,
     createdAt |-> IF editingRecord # Null THEN editingRecord.createdAt ELSE now,
     updatedAt |-> now]

submitCommand ==
    IF editingRecord # Null
    THEN [kind |-> "update", id |-> editingRecord.id, data |-> recordData]
    ELSE [kind |-> "create", id |-> 0, data |-> [recordData EXCEPT !.createdAt = now]]

\* A submit that returns at once while a write is awaiting its acknowledgment.
handleSubmitWhileIdle ==
    /\ subscribed
    /\ showModal
    /\ IF ~validateForm
       THEN /\ toast' = "Name is required"
            /\ UNCHANGED <<pending, issued>>
       ELSE IF pending # <<>>
       THEN /\ toast' = "none"
            /\ UNCHANGED <<pending, issued>>
       ELSE /\ issued < MaxWrites
            /\ pending' = Append(pending, submitCommand)
            /\ issued' = issued + 1
            /\ toast' = "none"
    /\ lastOp' = "handleSubmit"
    /\ UNCHANGED <<docs, now, subscribed, records, filterVars, formVars,
                   selectedRecord>>

\* handleSubmit up to its await.  The name input is marked "required": the
\* browser may withhold the submit event of an empty name, it never adds one.
handleSubmit ==
    /\ subscribed
    /\ showModal
    /\ IF ~validateForm
       THEN /\ toast' = "Name is required"
            /\ UNCHANGED <<pending, issued>>
       ELSE /\ issued < MaxWrites
            /\ pending' = Append(pending, submitCommand)
            /\ issued' = issued + 1
            /\ toast' = "none"
    /\ lastOp' = "handleSubmit"
    /\ UNCHANGED <<docs, now, subscribed, records, filterVars, formVars,
                   selectedRecord>>

\* The document a write stores: Dates become Timestamps.
Stored(data) ==
    [name |-> data.name, singular |-> data.singular, plural |-> data.plural,
     status |-> data.status, createdAt |-> fromDate(data.createdAt),
     updatedAt |-> fromDate(data.updatedAt)]

\* updateDoc overwrites the fields it is given and keeps the others.
Merge(old, new) ==
    [f \in DOMAIN old \cup DOMAIN new |-> IF f \in DOMAIN new THEN new[f] ELSE old[f]]

\* setShowModal(false); resetForm(): what handleSubmit does after its await.
afterSave == showModal' = FALSE /\ resetForm

\* updateDoc resolves: the backend has applied the update.
updateResolved(k) ==
    /\ k \in 1..Len(pending)
    /\ pending[k].kind = "update"
    /\ Exists(docs[pending[k].id])
    /\ docs' = [docs EXCEPT ![pending[k].id] = Merge(@, Stored(pending[k].data))]
    /\ pending' = RemoveAt(pending, k)
    /\ toast' = "Record updated successfully"
    /\ afterSave
    /\ lastOp' = "updateResolved"
    /\ UNCHANGED <<issued, now, subscribed, records, filterVars,
                   selectedRecord>>

\* An acknowledgment that closes the form only if it still is the form
\* that was submitted.
createResolvedOwnSession(k) ==
    /\ k \in 1..Len(pending)
    /\ pending[k].kind = "create"
    /\ \E id \in Ids :
          /\ docs[id] = Absent
          /\ docs' = [docs EXCEPT ![id] = Stored(pending[k].data)]
    /\ pending' = RemoveAt(pending, k)
    /\ toast' = "Record created successfully"
    /\ IF editingRecord = Null /\ formData = FormOf(pending[k].data)
       THEN afterSave
       ELSE UNCHANGED formVars
    /\ lastOp' = "createResolved"
    /\ UNCHANGED <<issued, now, subscribed, records, filterVars,
                   selectedRecord>>

\* addDoc resolves: the backend has stored the document under a fresh id.
createResolved(k) ==
    /\ k \in 1..Len(pending)
    /\ pending[k].kind = "create"
    /\ \E id \in Ids :
          /\ docs[id] = Absent
          /\ docs' = [docs EXCEPT ![id] = Stored(pending[k].data)]
    /\ pending' = RemoveAt(pending, k)
    /\ toast' = "Record created successfully"
    /\ afterSave
    /\ lastOp' = "createResolved"
    /\ UNCHANGED <<issued, now, subscribed, records, filterVars,
                   selectedRecord>>

\* A catch block that also closes and resets the form.
saveRejectedResets(k) ==
    /\ k \in 1..Len(pending)
    /\ pending[k].kind \in {"update", "create"}
    /\ pending' = RemoveAt(pending, k)
    /\ toast' = "Error saving record. Please try again."
    /\ afterSave
    /\ lastOp' = "saveRejected"
    /\ UNCHANGED <<docs, issued, now, subscribed, records, filterVars, selectedRecord>>

\* updateDoc / addDoc rejects: the catch block of handleSubmit.
saveRejected(k) ==
    /\ k \in 1..Len(pending)
    /\ pending[k].kind \in {"update", "create"}
    /\ pending' = RemoveAt(pending, k)
    /\ toast' = "Error saving record. Please try again."
    /\ lastOp' = "saveRejected"
    /\ UNCHANGED <<docs, issued, now, subscribed, records, filterVars,
                   formVars, selectedRecord>>

\* handleDelete up to its await; confirmed is the answer of window.confirm.
handleDelete(i, confirmed) ==
    /\ subscribed
    /\ i \in 1..Len(filteredRecords)
    /\ IF confirmed
       THEN /\ issued < MaxWrites
            /\ pending' = Append(pending, [kind |-> "delete", id |-> filteredRecords[i].id])
            /\ issued' = issued + 1
       ELSE UNCHANGED <<pending, issued>>
    /\ lastOp' = "handleDelete"
    /\ UNCHANGED <<docs, now, subscribed, records, filterVars, formVars,
                   selectedRecord>>
    /\ toast' = "none"

\* A delete that also drops the record from the local list.
deleteResolvedOptimistic(k) ==
    /\ k \in 1..Len(pending)
    /\ pending[k].kind = "delete"
    /\ docs' = [docs EXCEPT ![pending[k].id] = Deleted]
    /\ pending' = RemoveAt(pending, k)
    /\ records' = SelectSeq(records, LAMBDA r : r.id # pending[k].id)
    /\ toast' = "Record deleted successfully"
    /\ lastOp' = "deleteResolved"
    /\ UNCHANGED <<issued, now, subscribed, filterVars, formVars, selectedRecord>>

\* deleteDoc resolves: the backend has removed the document.
deleteResolved(k) ==
    /\ k \in 1..Len(pending)
    /\ pending[k].kind = "delete"
    /\ docs' = [docs EXCEPT ![pending[k].id] = Deleted]
    /\ pending' = RemoveAt(pending, k)
    /\ toast' = "Record deleted successfully"
    /\ lastOp' = "deleteResolved"
    /\ UNCHANGED <<issued, now, subscribed, records, filterVars, formVars,
                   selectedRecord>>

\* deleteDoc rejects: the catch block of handleDelete.
deleteRejected(k) ==
    /\ k \in 1..Len(pending)
    /\ pending[k].kind = "delete"
    /\ pending' = RemoveAt(pending, k)
    /\ toast' = "Error deleting record"
    /\ lastOp' = "deleteRejected"
    /\ UNCHANGED <<docs, issued, now, subscribed, records, filterVars,
                   formVars, selectedRecord>>

\* ------------------------------------------------------------------ specification
Rows == 1..MaxWrites
Slots == 1..MaxWrites

\* Every handler, with one input of each kind.
Next ==
    \/ \E id \in Ids : ExternalWrite(id, DocFull)
    \/ onSnapshot
    \/ unsubscribe
    \/ setSearchQuery(<<"B">>)
    \/ setStatusFilter("Inactive")
    \/ \E i \in Rows : selectRow(i)
    \/ previous
    \/ next
    \/ closeDetails
    \/ \E i \in Rows : rowEdit(i)
    \/ detailsEdit
    \/ addClick
    \/ handleInputChange("name", <<" ", "a">>)
    \/ handleCloseModal
    \/ handleSubmit
    \/ \E k \in Slots : updateResolved(k)
    \/ \E k \in Slots : createResolved(k)
    \/ \E k \in Slots : saveRejected(k)
    \/ \E i \in Rows, confirmed \in BOOLEAN : handleDelete(i, confirmed)
    \/ \E k \in Slots : deleteResolved(k)
    \/ \E k \in Slots : deleteRejected(k)

Spec == Init /\ [][Next]_vars

\* The list, the filter and the detail panel.
NextView ==
    \/ \E id \in Ids, data \in ExternalDocs : ExternalWrite(id, data)
    \/ onSnapshot
    \/ \E q \in QueryInputs : setSearchQuery(q)
    \/ \E s \in StatusFilters : setStatusFilter(s)
    \/ \E i \in Rows : selectRow(i)
    \/ previous
    \/ next
    \/ closeDetails
    \/ \E i \in Rows, confirmed \in BOOLEAN : handleDelete(i, confirmed)
    \/ \E k \in Slots : deleteResolved(k)
    \/ \E k \in Slots : deleteRejected(k)

SpecView == Init /\ [][NextView]_vars

\* The form and its writes.
NextForm ==
    \/ \E id \in Ids, data \in {DocFull, DocSparse} : ExternalWrite(id, data)
    \/ onSnapshot
    \/ \E i \in Rows : rowEdit(i)
    \/ addClick
    \/ \E input \in FormInputs : handleInputChange(input[1], input[2])
    \/ handleCloseModal
    \/ handleSubmit
    \/ \E k \in Slots : updateResolved(k)
    \/ \E k \in Slots : createResolved(k)
    \/ \E k \in Slots : saveRejected(k)
    \/ \E i \in Rows : handleDelete(i, TRUE)
    \/ \E k \in Slots : deleteResolved(k)

SpecForm == Init /\ [][NextForm]_vars

\* The timestamps of a record from the backend through an edit and back.
NextTime ==
    \/ Tick
    \/ \E id \in Ids, data \in DatedDocs : ExternalWrite(id, data)
    \/ onSnapshot
    \/ \E i \in Rows : selectRow(i)
    \/ detailsEdit
    \/ \E i \in Rows : rowEdit(i)
    \/ addClick
    \/ handleInputChange("name", <<" ", "a">>)
    \/ handleSubmit
    \/ \E k \in Slots : updateResolved(k)
    \/ \E k \in Slots : createResolved(k)

SpecTime == Init /\ [][NextTime]_vars

\* The detail panel over a list that changes under it.
NextDetail ==
    \/ Tick
    \/ \E id \in Ids, data \in {DocFull, DocSparse} : ExternalWrite(id, data)
    \/ onSnapshot
    \/ \E i \in Rows : selectRow(i)
    \/ previous
    \/ next
    \/ closeDetails
    \/ detailsEdit
    \/ handleSubmit
    \/ \E k \in Slots : updateResolved(k)
    \/ \E i \in Rows : handleDelete(i, TRUE)
    \/ \E k \in Slots : deleteResolved(k)

SpecDetail == Init /\ [][NextDetail]_vars

\* The filter as a function of the list, the search text and the status filter.
FilterPool ==
    { [name |-> <<"A", "b">>, singular |-> <<>>, plural |-> <<>>, status |-> "Active"],
      [name |-> <<"b">>, singular |-> <<"A">>, plural |-> <<>>, status |-> "Inactive"],
      [name |-> <<>>, singular |-> <<>>, plural |-> <<"a", "B">>, status |-> "Active"],
      [name |-> <<"a", " ", "b">>, singular |-> <<>>, plural |-> <<>>,
       status |-> "Inactive"],
      [name |-> <<" ">>, singular |-> <<"b">>, plural |-> <<"b">>,
       status |-> "Archived"] }

FilterRecord(id, fields) ==
    [id |-> id, name |-> fields.name, singular |-> fields.singular,
     plural |-> fields.plural, status |-> fields.status,
     createdAt |-> 1, updatedAt |-> 1]

\* Lists as a push delivers them: equal createdAt, ids descending.
FilterLists ==
    UNION { { [i \in 1..n |-> FilterRecord(n + 1 - i, f[i])] : f \in [1..n -> FilterPool] } :
            n \in 0..MaxRecords }

FilterQueries ==
    { <<>>, <<" ">>, <<"A">>, <<"a", "b">>, <<" ", "a">>, <<"B", " ">> }

InitFilter ==
    /\ docs = [i \in Ids |-> Absent]
    /\ pending = <<>>
    /\ now = 1
    /\ issued = 0
    /\ subscribed = TRUE
    /\ records \in FilterLists
    /\ searchQuery \in FilterQueries
    /\ statusFilter \in StatusFilters
    /\ showModal = FALSE
    /\ editingRecord = Null
    /\ selectedRecord = Null
    /\ formData = EmptyForm
    /\ toast = "none"
    /\ lastOp = "mount"

NextFilter ==
    \/ \E q \in FilterQueries : setSearchQuery(q)
    \/ \E s \in StatusFilters : setStatusFilter(s)

SpecFilter == InitFilter /\ [][NextFilter]_vars

\* ================================================================== properties
IsBlank(text) == \A i \in 1..Len(text) : text[i] \in Whitespace

SameLetter(a, b) == toLowerCaseChar(a) = toLowerCaseChar(b)

\* q occurs in text at some offset, letter case ignored.
OccursIn(q, text) ==
    \E off \in 0..(Len(text) - Len(q)) :
        \A i \in 1..Len(q) : SameLetter(text[off + i], q[i])

PassesBoth(record, q, s) ==
    /\ \/ IsBlank(q)
       \/ OccursIn(q, record.name)
       \/ OccursIn(q, record.singular)
       \/ OccursIn(q, record.plural)
    /\ s = "All" \/ s = record.status

PassingIndices(L, q, s) == {i \in 1..Len(L) : PassesBoth(L[i], q, s)}

\* The k-th smallest element of a set of indices.
Nth(S, k) == CHOOSE i \in S : Cardinality({j \in S : j < i}) = k - 1

\* C1: the filtered list is exactly the records of the list that pass the
\* search test and the status test, in the order of the list, each once; and
\* filtering the result again with the same search text and status filter
\* returns it unchanged.
C1_FilterIsTheSubsequenceOfPassingRecords ==
    LET pass == PassingIndices(records, searchQuery, statusFilter)
    IN  /\ Len(filteredRecords) = Cardinality(pass)
        /\ \A k \in 1..Len(filteredRecords) : filteredRecords[k] = records[Nth(pass, k)]
        /\ Filter(filteredRecords, searchQuery, statusFilter) = filteredRecords

\* A search text in another letter case and a status filter keep one record
\* of the list and drop another.
C1_Witness ==
    /\ lastOp = "setSearchQuery"
    /\ searchQuery = <<"a", "b">>
    /\ statusFilter = "Active"
    /\ Len(records) = 2
    /\ Len(filteredRecords) = 1
    /\ filteredRecords[1] = records[2]
    /\ records[2].name = <<"A", "b">>

\* C2: a submit whose form name is empty or whitespace-only, in Create mode
\* and in Edit mode alike, issues no backend write, raises the validation
\* error and leaves the form open with its fields, its edit target and the
\* record list unchanged.
C2_BlankNameSubmitWritesNothing ==
    [][ (lastOp' = "handleSubmit" /\ IsBlank(formData.name)) =>
            /\ pending' = pending
            /\ docs' = docs
            /\ issued' = issued
            /\ toast' = "Name is required"
            /\ showModal /\ showModal'
            /\ formData' = formData
            /\ editingRecord' = editingRecord
            /\ records' = records ]_vars

\* An Edit-mode form seeded with a whitespace-only name has been submitted.
C2_Witness ==
    /\ lastOp = "handleSubmit"
    /\ toast = "Name is required"
    /\ editingRecord # Null
    /\ formData.name = <<" ">>
    /\ showModal

\* C3: the local record list is changed by the subscription push callback
\* alone; every other step (submit, acknowledgment or rejection of a write,
\* delete, cancel, filter change, selection, navigation) leaves it as it was.
C3_OnlyThePushChangesTheList ==
    [][ records' # records => lastOp' = "onSnapshot" ]_vars

\* An update has been acknowledged and the list still shows the state from
\* before the write.
C3_Witness ==
    /\ lastOp = "updateResolved"
    /\ records # <<>>
    /\ records # Snapshot(docs, now)

TargetId(record) == IF record = Null THEN 0 ELSE record.id

\* C4 as stated: when a create or update is rejected the modal is open, the
\* four fields are the ones handed to the rejected command at submit and the
\* edit target is the one of the submit; an error notification is raised.
C4_RejectionFindsTheFormAsSubmitted ==
    [][ lastOp' = "saveRejected" =>
            \E k \in 1..Len(pending) :
                /\ pending' = RemoveAt(pending, k)
                /\ showModal'
                /\ formData' = FormOf(pending[k].data)
                /\ TargetId(editingRecord') = pending[k].id
                /\ toast' = "Error saving record. Please try again." ]_vars

\* C4, amended: the rejection of a create or update raises the error
\* notification and changes nothing of the form: the modal, the four fields
\* and the edit target are as they were immediately before the rejection.
C4_RejectionLeavesTheFormAsItIs ==
    [][ lastOp' = "saveRejected" =>
            /\ toast' = "Error saving record. Please try again."
            /\ showModal' = showModal
            /\ formData' = formData
            /\ editingRecord' = editingRecord
            /\ docs' = docs
            /\ records' = records ]_vars

\* An update was rejected and the Edit form is still open with its fields.
C4_Witness ==
    /\ lastOp = "saveRejected"
    /\ showModal
    /\ editingRecord # Null
    /\ formData = [FormOf(editingRecord) EXCEPT !.name = <<"a">>]

\* C5: the acknowledgment of a create or update closes the modal, resets the
\* form to the Create-mode defaults and raises the success notification; the
\* submit itself never closes the modal, which closes by an acknowledgment or
\* by cancel only.
C5_AcknowledgmentClosesAndResets ==
    [][ /\ lastOp' \in {"updateResolved", "createResolved"} =>
              /\ ~showModal'
              /\ formData' = EmptyForm
              /\ editingRecord' = Null
              /\ toast' = IF lastOp' = "updateResolved"
                          THEN "Record updated successfully"
                          ELSE "Record created successfully"
        /\ lastOp' = "handleSubmit" => showModal' = showModal
        /\ (showModal /\ ~showModal') =>
              lastOp' \in {"updateResolved", "createResolved", "handleCloseModal"}
      ]_vars

\* A create was acknowledged while the form was open; it is closed and reset.
C5_Witness ==
    /\ lastOp = "createResolved"
    /\ toast = "Record created successfully"
    /\ ~showModal
    /\ formData = EmptyForm
    /\ editingRecord = Null

\* The stored value of a timestamp field, null below every timestamp.
StoredStamp(d, f) == IF Has(d, f) THEN d[f] ELSE -1

\* C6: an acknowledged update leaves the stored createdAt as it was in the
\* backend immediately before the write and makes the stored updatedAt
\* strictly greater than it was.
C6_UpdateKeepsCreatedAtAndAdvancesUpdatedAt ==
    [][ lastOp' = "updateResolved" =>
            \A id \in Ids :
                docs'[id] # docs[id] =>
                    /\ StoredStamp(docs'[id], "createdAt") = StoredStamp(docs[id], "createdAt")
                    /\ StoredStamp(docs'[id], "updatedAt") > StoredStamp(docs[id], "updatedAt")
      ]_vars

\* The positions of the selected id in the filtered list.
SelectedPositions == {i \in 1..Len(filteredRecords) : filteredRecords[i].id = selectedRecord.id}

\* C7: with the selected record at position i of the N records of the
\* filtered list, Previous selects the record at i-1 and leaves the selection
\* unchanged at the first position; Next selects the record at i+1 and leaves
\* the selection unchanged at the last position.
C7_NavigationStepsWithinTheFilteredList ==
    [][ selectedRecord # Null =>
            \A i \in SelectedPositions :
                /\ lastOp' = "previous" =>
                      selectedRecord' = IF i = 1 THEN selectedRecord
                                        ELSE filteredRecords[i - 1]
                /\ lastOp' = "next" =>
                      selectedRecord' = IF i = Len(filteredRecords) THEN selectedRecord
                                        ELSE filteredRecords[i + 1]
      ]_vars

\* Previous was pressed on the first record of the filtered list, which is
\* the second record of the unfiltered list.
C7_Witness ==
    /\ lastOp = "previous"
    /\ selectedRecord # Null
    /\ Len(filteredRecords) = 1
    /\ Len(records) = 2
    /\ filteredRecords[1].id = selectedRecord.id
    /\ records[2].id = selectedRecord.id

SelectedIsListed ==
    \E i \in 1..Len(filteredRecords) : filteredRecords[i].id = selectedRecord.id

\* C8 as stated: the selected record is none or a member, by id, of the
\* current filtered list.
C8_SelectedIsInTheFilteredList ==
    selectedRecord = Null \/ SelectedIsListed

\* C8, amended: whenever the selection changes to a record, that record is
\* an element of the filtered list at that moment; a later filter change or
\* push may leave the selected record outside the filtered list.
C8_SelectionIsTakenFromTheFilteredList ==
    [][ (selectedRecord' # selectedRecord /\ selectedRecord' # Null) =>
            \E i \in 1..Len(filteredRecords) : selectedRecord' = filteredRecords[i]
      ]_vars

\* A row of a list narrowed by the status filter has been selected.
C8_Witness ==
    /\ lastOp = "selectRow"
    /\ Len(filteredRecords) < Len(records)
    /\ selectedRecord = filteredRecords[1]

\* C9: while the selected record is not in the filtered list, the position
\* lookup yields -1, the panel shows 0 of N with N the length of the
\* filtered list, and Previous and Next leave the selection unchanged.
C9_MissingSelectionIsPositionZero ==
    /\ [] ( (selectedRecord # Null /\ ~SelectedIsListed) =>
                /\ currentIndex = -1
                /\ recordNum = 0
                /\ totalNum = Len(filteredRecords)
                /\ ~hasPrev /\ ~hasNext )
    /\ [][ (selectedRecord # Null /\ ~SelectedIsListed /\ lastOp' \in {"previous", "next"})
              => selectedRecord' = selectedRecord ]_vars

\* Next was pressed while the selected record was filtered out of a list
\* that still shows another record.
C9_Witness ==
    /\ lastOp = "next"
    /\ selectedRecord # Null
    /\ ~SelectedIsListed
    /\ filteredRecords # <<>>

\* C10: every record of the local list has status Active or Inactive.
C10_StatusIsActiveOrInactive ==
    \A i \in 1..Len(records) : records[i].status \in {"Active", "Inactive"}

\* C11: createdAt <= updatedAt for every record of the local list and for
\* every create or update command awaiting its acknowledgment, records whose
\* createdAt or updatedAt was null in the pushed document and was decoded to
\* the clock at read time included.
C11_CreatedAtNeverAfterUpdatedAt ==
    /\ \A i \in 1..Len(records) : records[i].createdAt <= records[i].updatedAt
    /\ \A k \in 1..Len(pending) :
           pending[k].kind \in {"create", "update"} =>
               pending[k].data.createdAt <= pending[k].data.updatedAt

\* C12: after every push the local list is exactly the decoded documents of
\* the push, each once, in the order of the query (createdAt descending):
\* no record of the previous list survives unless the push holds it, and
\* nothing is merged or sorted again.
C12_PushReplacesTheWholeList ==
    [][ lastOp' = "onSnapshot" =>
            /\ Len(records') = Cardinality(LiveIds(docs))
            /\ \A id \in LiveIds(docs) :
                   \E i \in 1..Len(records') : records'[i] = Decode(id, docs[id], now)
            /\ \A i, j \in 1..Len(records') :
                   i < j => Precedes(docs, records'[i].id, records'[j].id)
      ]_vars

\* A push after an acknowledged delete: the record the list held is gone.
C12_Witness ==
    /\ lastOp = "onSnapshot"
    /\ records = <<>>
    /\ \E id \in Ids : docs[id] = Deleted

\* C13: opening the form on a record copies the record's name, singular,
\* plural and status into the form and makes the record the edit target;
\* a push leaves the modal, the form fields and the edit target as they
\* were, whatever it does to that record in the list.
C13_EditFormIsASnapshotAtOpen ==
    [][ /\ lastOp' = "handleEdit" =>
              \E i \in 1..Len(filteredRecords) :
                  /\ editingRecord' = filteredRecords[i]
                  /\ formData'.name = filteredRecords[i].name
                  /\ formData'.singular = filteredRecords[i].singular
                  /\ formData'.plural = filteredRecords[i].plural
                  /\ formData'.status = filteredRecords[i].status
                  /\ DOMAIN formData' = {"name", "singular", "plural", "status"}
                  /\ showModal'
        /\ lastOp' = "onSnapshot" =>
              /\ formData' = formData
              /\ editingRecord' = editingRecord
              /\ showModal' = showModal
      ]_vars

\* A push has changed the record an open Edit form was seeded from: the list
\* shows other values under the id of the edit target than the form holds.
C13_Witness ==
    /\ lastOp = "onSnapshot"
    /\ showModal
    /\ editingRecord # Null
    /\ formData = FormOf(editingRecord)
    /\ \E i \in 1..Len(records) :
           /\ records[i].id = editingRecord.id
           /\ FormOf(records[i]) # formData

\* C14: cancel/close of the open form issues no backend write, closes the
\* modal and leaves the form fields at the Create-mode defaults with no edit
\* target; a closed form holds nothing, so the form Add opens next is empty
\* and in Create mode.
C14_CloseDiscardsWithoutWriting ==
    [][ /\ lastOp' = "handleCloseModal" =>
              /\ showModal /\ ~showModal'
              /\ pending' = pending
              /\ docs' = docs
              /\ issued' = issued
              /\ formData' = EmptyForm
              /\ editingRecord' = Null
        /\ (lastOp' = "addClick" /\ ~showModal) =>
              /\ showModal'
              /\ formData' = EmptyForm
              /\ editingRecord' = Null
      ]_vars

\* Cancel was pressed on an Edit form whose update, the only write this
\* client has issued, is still awaiting its acknowledgment.
C14_Witness ==
    /\ lastOp = "handleCloseModal"
    /\ issued = 2
    /\ Len(pending) = 1
    /\ pending[1].kind = "update"
    /\ FormOf(pending[1].data) # EmptyForm
    /\ ~showModal
    /\ formData = EmptyForm
    /\ editingRecord = Null

\* C15: the view has its one subscription from activation on; a push is
\* delivered only while the subscription is attached; the release detaches
\* it for good, and from then on no step changes the local record list,
\* whatever happens in the backend.
C15_NoPushAfterRelease ==
    /\ [] (lastOp = "mount" => subscribed)
    /\ [][ /\ lastOp' = "onSnapshot" => subscribed
           /\ lastOp' = "unsubscribe" => (subscribed /\ ~subscribed')
           /\ ~subscribed => (~subscribed' /\ records' = records)
         ]_vars

\* After the release another client wrote a document that the list, which
\* held a record before, does not show.
C15_Witness ==
    /\ ~subscribed
    /\ lastOp = "external"
    /\ records # <<>>
    /\ records # Snapshot(docs, now)

\* C16: the search text is trimmed before it is matched: a search text with
\* leading or trailing whitespace gives the same filtered list as its
\* trimmed form, for every list and status filter.
C16_TrimmedQueryFiltersAlike ==
    Filter(records, searchQuery, statusFilter)
        = Filter(records, trim(searchQuery), statusFilter)

\* The form is not the one command c was submitted from: its edit target or
\* one of its fields differs from what the command carries.
LaterSession(c) ==
    /\ showModal
    /\ TargetId(editingRecord) # c.id \/ formData # FormOf(c.data)

\* C17: when a create or update is acknowledged while the open form belongs
\* to a later session (other fields or another edit target than the
\* acknowledged command), the acknowledgment closes the modal and resets the
\* form to the Create-mode defaults; it issues no write, and what it stores
\* are the fields of the acknowledged command, not those of the form.
C17_AcknowledgmentResetsALaterSession ==
    [][ \A k \in 1..Len(pending) :
            ( /\ lastOp' \in {"updateResolved", "createResolved"}
              /\ pending' = RemoveAt(pending, k)
              /\ LaterSession(pending[k]) ) =>
                /\ ~showModal'
                /\ formData' = EmptyForm
                /\ editingRecord' = Null
                /\ issued' = issued
                /\ \A id \in Ids :
                       docs'[id] # docs[id] =>
                           /\ docs'[id].name = pending[k].data.name
                           /\ docs'[id].singular = pending[k].data.singular
                           /\ docs'[id].plural = pending[k].data.plural
                           /\ docs'[id].status = pending[k].data.status
      ]_vars

\* A create is awaiting its acknowledgment, the backend has a free id for
\* it, and the form, cancelled since, is open again on a record with a name
\* typed into it.
C17_Witness ==
    /\ lastOp = "handleInputChange"
    /\ Len(pending) = 1
    /\ pending[1].kind = "create"
    /\ \E id \in Ids : docs[id] = Absent
    /\ showModal
    /\ editingRecord # Null
    /\ formData.name # editingRecord.name
    /\ LaterSession(pending[1])

\* C18: a submit with a valid name issues its command whether or not a write
\* is awaiting its acknowledgment, and leaves the form open with its fields;
\* in Create mode the command is a create with the fields of the form, so a
\* second submit issues a second, equal create; and every acknowledged
\* create adds one document to the backend.
C18_SubmitIssuesAWriteEachTime ==
    [][ /\ (lastOp' = "handleSubmit" /\ ~IsBlank(formData.name)) =>
              /\ Len(pending') = Len(pending) + 1
              /\ SubSeq(pending', 1, Len(pending)) = pending
              /\ issued' = issued + 1
              /\ showModal' /\ formData' = formData /\ editingRecord' = editingRecord
              /\ editingRecord = Null =>
                    /\ pending'[Len(pending')].kind = "create"
                    /\ FormOf(pending'[Len(pending')].data) = formData
        /\ lastOp' = "createResolved" =>
              Cardinality(LiveIds(docs')) = Cardinality(LiveIds(docs)) + 1
      ]_vars

\* The Create form was submitted a second time before the first create was
\* acknowledged: two equal creates are pending and the form is still open.
C18_Witness ==
    /\ lastOp = "handleSubmit"
    /\ Len(pending) = 2
    /\ pending[1].kind = "create"
    /\ pending[2] = pending[1]
    /\ showModal
    /\ editingRecord = Null
    /\ formData = FormOf(pending[2].data)
    /\ Cardinality({id \in Ids : docs[id] = Absent}) >= 2

\* C19: the selected record is a copy: it changes by a row click, Previous,
\* Next, Close or the panel's Edit button only, so a push that changes or
\* removes the record of that id leaves its field values as they were; the
\* panel's Edit button makes that copy the edit target and seeds the form
\* from it, and the update then submitted carries the copy's createdAt; the
\* position shown is the place of the selected id in the current filtered
\* list, 0 when it is not there.
C19_SelectionIsACopy ==
    /\ [] ( selectedRecord # Null =>
                /\ recordNum = IF SelectedIsListed
                               THEN CHOOSE i \in SelectedPositions : TRUE
                               ELSE 0
                /\ totalNum = Len(filteredRecords) )
    /\ [][ /\ selectedRecord' # selectedRecord =>
                  lastOp' \in {"selectRow", "previous", "next", "closeDetails",
                               "detailsEdit"}
           /\ lastOp' = "detailsEdit" =>
                  /\ editingRecord' = selectedRecord
                  /\ formData' = FormOf(selectedRecord)
                  /\ showModal'
           /\ (lastOp' = "handleSubmit" /\ editingRecord # Null
                  /\ Len(pending') > Len(pending)) =>
                  /\ pending'[Len(pending')].kind = "update"
                  /\ pending'[Len(pending')].id = editingRecord.id
                  /\ pending'[Len(pending')].data.createdAt = editingRecord.createdAt
         ]_vars

\* The panel's Edit button was pressed on a selection that a push had left
\* behind: the list holds other values under the id than the copy, and the
\* form is seeded from the copy.
C19_Witness ==
    /\ lastOp = "detailsEdit"
    /\ showModal
    /\ editingRecord # Null
    /\ formData = FormOf(editingRecord)
    /\ \E i \in 1..Len(records) :
           /\ records[i].id = editingRecord.id
           /\ FormOf(records[i]) # formData
           /\ records[i].createdAt # editingRecord.createdAt

====
